---- MODULE Spec2Model ----
(***************************************************************************)
(* The PPS recommendation engine of BackEnd/action_runner.py and the two   *)
(* HTTP handlers of BackEnd/app.py that reach it (query_api and            *)
(* report_pps_status), as a state machine.                                 *)
(*                                                                         *)
(* State: the two module globals of action_runner.py (PPS_CENTERS and      *)
(* LIVE_REPORTS_AGGREGATED), the report file pps_live_status.json, the     *)
(* center data file, the wall clock, and the outcome of the latest step.   *)
(* Strings are kept as strings: upper(), lower(), substring search and the *)
(* reason formatting are computed character by character.                  *)
(***************************************************************************)
EXTENDS Integers, Sequences, FiniteSets, TLC

VARIABLES
    phase,                   \* "import": module code not yet run; "serving"
    ppsDataFile,             \* content of data/live_pps_data.json ("shelters")
    reportsFile,             \* pps_live_status.json: [state, reports]
    now,                     \* int(time.time())
    PPS_CENTERS,             \* action_runner.PPS_CENTERS
    LIVE_REPORTS_AGGREGATED, \* action_runner.LIVE_REPORTS_AGGREGATED
    acked,                   \* reports acknowledged by this process, in order
    ticks,                   \* clock advances so far (bounds the model)
    threads,                 \* the requests in flight, per worker thread
    response                 \* outcome of the latest step

vars == <<phase, ppsDataFile, reportsFile, now, PPS_CENTERS,
          LIVE_REPORTS_AGGREGATED, acked, ticks, threads, response>>

----------------------------------------------------------------------------
(* Python helpers *)

\* dict.get(key, default)
Get(d, key, default) == IF key \in DOMAIN d THEN d[key] ELSE default

None == "None"

Max(a, b) == IF a >= b THEN a ELSE b

Abs(a) == IF a < 0 THEN 0 - a ELSE a

LowerLetters == "abcdefghijklmnopqrstuvwxyz"

UpperLetters == "ABCDEFGHIJKLMNOPQRSTUVWXYZ"

\* the letters str.upper() and str.lower() change
UpperOf ==
    [c \in {SubSeq(LowerLetters, i, i) : i \in 1..26} |->
        LET i == CHOOSE k \in 1..26 : SubSeq(LowerLetters, k, k) = c
        IN  SubSeq(UpperLetters, i, i)]

LowerOf ==
    [c \in {SubSeq(UpperLetters, i, i) : i \in 1..26} |->
        LET i == CHOOSE k \in 1..26 : SubSeq(UpperLetters, k, k) = c
        IN  SubSeq(LowerLetters, i, i)]

\* one character of str.upper()
UpperChar(c) == IF c \in DOMAIN UpperOf THEN UpperOf[c] ELSE c

\* one character of str.lower()
LowerChar(c) == IF c \in DOMAIN LowerOf THEN LowerOf[c] ELSE c

RECURSIVE Upper(_)
Upper(s) ==
    IF Len(s) = 0 THEN ""
    ELSE UpperChar(SubSeq(s, 1, 1)) \o Upper(SubSeq(s, 2, Len(s)))

RECURSIVE Lower(_)
Lower(s) ==
    IF Len(s) = 0 THEN ""
    ELSE LowerChar(SubSeq(s, 1, 1)) \o Lower(SubSeq(s, 2, Len(s)))

\* sub occurs in s (re.search of a literal alternative)
Contains(s, sub) ==
    \E i \in 1..(Len(s) - Len(sub) + 1) : SubSeq(s, i, i + Len(sub) - 1) = sub

StartsWith(s, prefix) ==
    /\ Len(prefix) <= Len(s)
    /\ SubSeq(s, 1, Len(prefix)) = prefix

\* sep.join(parts)
RECURSIVE Join(_, _)
Join(parts, sep) ==
    IF Len(parts) = 0 THEN ""
    ELSE IF Len(parts) = 1 THEN parts[1]
    ELSE parts[1] \o sep \o Join(Tail(parts), sep)

----------------------------------------------------------------------------
(* Configuration of action_runner.py *)

REPORT_TIMEOUT_SEC == 6 * 60 * 60

CRITICAL_CONSENSUS_THRESHOLD == 2

STATUS_RANKING ==
    [s \in {"BEST_MATCH", "SUITABLE", "WARNING", "CRITICAL_ISSUE", "NOT_SUITABLE"} |->
        CASE s = "BEST_MATCH" -> 0
          [] s = "SUITABLE" -> 1
          [] s = "WARNING" -> 2
          [] s = "CRITICAL_ISSUE" -> 3
          [] s = "NOT_SUITABLE" -> 4]

\* The phrase tables, without the leading pictographs of the source strings.
TRANSLATION_MAP ==
    [l \in {"en", "ms"} |->
        IF l = "en"
        THEN [matched |-> "Matched",
              missing |-> "? Info Missing",
              failed_prefix |-> "Failed: No",
              failed_suffix_l |-> "(Has '",
              failed_suffix_r |-> "')",
              no_report |-> "No recent critical/warning report found.",
              critical_prefix |-> "CRITICAL LIVE REPORT:",
              warning_prefix |-> "WARNING LIVE REPORT:",
              fallback_msg_l |-> "No specific needs detected for query: ",
              fallback_msg_r |-> ". Showing closest PPS."]
        ELSE [matched |-> "Dipadankan",
              missing |-> "? Maklumat Tiada",
              failed_prefix |-> "Gagal: Tiada",
              failed_suffix_l |-> "(Ada '",
              failed_suffix_r |-> "')",
              no_report |-> "Tiada laporan kritikal/amaran ditemui.",
              critical_prefix |-> "LAPORAN KRITIKAL LANGSUNG:",
              warning_prefix |-> "LAPORAN AMARAN LANGSUNG:",
              fallback_msg_l |-> "Tiada keperluan khusus dikesan untuk pertanyaan: ",
              fallback_msg_r |-> ". Menunjukkan PPS terdekat."]]

----------------------------------------------------------------------------
(* refresh_live_reports_from_disk *)

\* The report file is "ok" (a JSON list), "missing", "invalid_json" (text that
\* json.load rejects) or "undecodable" (bytes that are not UTF-8 text).
\* lines 74-75: json.load returns the list
FileReadable(file) == file.state = "ok"

\* lines 74-75 and 121: reading bytes that are not UTF-8 raises
\* UnicodeDecodeError, which the except clause does not name
RefreshRaises(file) == file.state = "undecodable"

\* line 80 with <= for <
IsRecentOff(report, current_time) ==
    current_time - Get(report, "timestamp", 0) <= REPORT_TIMEOUT_SEC

\* line 80 with a missing timestamp read as the current time
IsRecentMissingIsNow(report, current_time) ==
    current_time - Get(report, "timestamp", current_time) < REPORT_TIMEOUT_SEC

\* line 80: the report is inside the window
IsRecent(report, current_time) ==
    current_time - Get(report, "timestamp", 0) < REPORT_TIMEOUT_SEC

\* lines 78-81
RecentReports(all_reports, current_time) ==
    SelectSeq(all_reports, LAMBDA r : IsRecent(r, current_time))

\* line 87: a truthy pps_name
HasPpsName(report) == Get(report, "pps_name", None) \notin {None, ""}

\* lines 84-90: the keys of reports_by_pps
ReportedNames(recent_reports) ==
    {recent_reports[i].pps_name :
        i \in {j \in 1..Len(recent_reports) : HasPpsName(recent_reports[j])}}

\* lines 84-90: reports_by_pps[pps_name], in file order
ReportsOf(recent_reports, pps_name) ==
    SelectSeq(recent_reports,
              LAMBDA r : HasPpsName(r) /\ r.pps_name = pps_name)

\* line 98
IsCriticalReport(r) == Upper(Get(r, "status", "")) \in {"FULL", "CRITICAL_ISSUE"}

\* lines 96-99
CriticalReports(reports) == SelectSeq(reports, IsCriticalReport)

\* lines 101-102 with the sort ascending (no reverse=True)
LatestReportAscending(reports) ==
    LET ts(i) == Get(reports[i], "timestamp", 0)
        k == CHOOSE i \in 1..Len(reports) :
                /\ \A j \in 1..Len(reports) : ts(i) <= ts(j)
                /\ \A j \in 1..(i - 1) : ts(i) < ts(j)
    IN  reports[k]

\* lines 101-102: the stable descending sort by timestamp puts first the
\* earliest-listed report among those with the greatest timestamp
LatestReport(reports) ==
    LET ts(i) == Get(reports[i], "timestamp", 0)
        k == CHOOSE i \in 1..Len(reports) :
                /\ \A j \in 1..Len(reports) : ts(j) <= ts(i)
                /\ \A j \in 1..(i - 1) : ts(j) < ts(i)
    IN  reports[k]

\* lines 104-113 with CRITICAL_ISSUE from the first critical report on
FinalStatusThresholdOne(n, latest_report) ==
    IF n >= 1 THEN "CRITICAL_ISSUE"
    ELSE Get(latest_report, "status", "OK")

\* lines 104-113, with the critical count n
FinalStatus(n, latest_report) ==
    IF n >= CRITICAL_CONSENSUS_THRESHOLD THEN "CRITICAL_ISSUE"
    ELSE IF n >= 1 THEN "WARNING"
    ELSE Get(latest_report, "status", "OK")

\* lines 106, 109, 113
LiveReason(n) ==
    IF n >= CRITICAL_CONSENSUS_THRESHOLD
    THEN "Consensus: " \o ToString(n) \o " recent reports confirm critical status."
    ELSE IF n >= 1
    THEN "Warning: 1 user reported critical status. Needs verification."
    ELSE "No recent critical reports."

\* lines 93-119: the entry of one center
AggregateEntry(reports) ==
    LET n == Len(CriticalReports(reports))
        latest_report == LatestReport(reports)
    IN  [final_status |-> FinalStatus(n, latest_report),
         reason |-> LiveReason(n),
         latest_timestamp |-> Get(latest_report, "timestamp", None)]

EmptyMap == [k \in {} |-> None]

\* lines 62-123: the value of LIVE_REPORTS_AGGREGATED when the call ends
RefreshLiveReports(file, current_time) ==
    IF ~FileReadable(file) THEN EmptyMap
    ELSE LET recent_reports == RecentReports(file.reports, current_time)
         IN  [pps_name \in ReportedNames(recent_reports) |->
                 AggregateEntry(ReportsOf(recent_reports, pps_name))]

----------------------------------------------------------------------------
(* load_pps_data and extract_needs *)

\* lines 128-138: PPS_CENTERS after the call
LoadPpsData(data_file) == data_file

\* lines 145-149: the alternatives of the four patterns
NeedKeywords ==
    [need \in {"ground_floor", "oku_toilets", "pet_area", "family_room"} |->
        CASE need = "ground_floor" ->
                {"wheelchair", "oku", "disabled access", "ground",
                 "tingkat bawah", "lantai bawah"}
          [] need = "oku_toilets" ->
                {"oku toilet", "tandas oku", "disabled toilet", "accessible toilet"}
          [] need = "pet_area" ->
                {"pet", "cat", "dog", "animal", "haiwan", "kucing", "anjing"}
          [] need = "family_room" ->
                {"family", "babies", "nursing", "newborn", "keluarga", "bayi",
                 "menyusu"}]

\* the order of the keys of the needs dict
NeedOrder == <<"ground_floor", "oku_toilets", "pet_area", "family_room">>

\* lines 142-151 without re.IGNORECASE
extract_needs_case_sensitive(query) ==
    [need \in DOMAIN NeedKeywords |->
        \E kw \in NeedKeywords[need] : Contains(query, kw)]

\* lines 142-151: re.search(..., re.IGNORECASE) per need
extract_needs(query) ==
    LET q == Lower(query)
    IN  [need \in DOMAIN NeedKeywords |->
            \E kw \in NeedKeywords[need] : Contains(q, kw)]

\* line 168
NeedsDetected(needs) == \E need \in DOMAIN needs : needs[need]

\* line 201: the needs flagged true, in dict order
RequiredNeeds(needs) == SelectSeq(NeedOrder, LAMBDA need : needs[need])

----------------------------------------------------------------------------
(* run_actions: distances *)

\* lines 174: both coordinates present
HasCoordinates(pps) == "lat" \in DOMAIN pps /\ "lon" \in DOMAIN pps

\* geopy's geodesic(...).kilometers on the model's coordinate grid, in metres
Geodesic(lat1, lon1, lat2, lon2) == 1234 * (Abs(lat1 - lat2) + Abs(lon1 - lon2))

\* round(distance_km, 2), in hundredths of a kilometre
Round2(metres) == (metres + 5) \div 10

\* lines 175-176: the center record with distance_km set
SetDistance(pps, lat, lon) ==
    [k \in DOMAIN pps \cup {"distance_km"} |->
        IF k = "distance_km"
        THEN Round2(Geodesic(lat, lon, pps.lat, pps.lon))
        ELSE pps[k]]

\* lines 172-177: PPS_CENTERS after the loop (the records are updated in place)
CentersAfterDistance(centers, lat, lon) ==
    [i \in 1..Len(centers) |->
        IF HasCoordinates(centers[i]) THEN SetDistance(centers[i], lat, lon)
        ELSE centers[i]]

\* lines 171-177: all_pps_with_distance
AllPpsWithDistance(centers, lat, lon) ==
    SelectSeq(CentersAfterDistance(centers, lat, lon), HasCoordinates)

----------------------------------------------------------------------------
(* run_actions: capability matching *)

\* lines 182-187
CAPABILITY_MAP ==
    [need \in {"ground_floor", "oku_toilets", "pet_area", "family_room"} |->
        CASE need = "ground_floor" -> [pos |-> "ground_floor", neg |-> "stairs_only"]
          [] need = "oku_toilets" -> [pos |-> "oku_toilets", neg |-> "no_oku_toilets"]
          [] need = "pet_area" -> [pos |-> "designated_pet_area", neg |-> "no_pets"]
          [] need = "family_room" -> [pos |-> "family_room", neg |-> "no_family_room"]]

\* lines 212-225 with the two tests in the other order
ClassifyNegFirst(capabilities, need) ==
    IF CAPABILITY_MAP[need].neg \in capabilities THEN "FAILED"
    ELSE IF CAPABILITY_MAP[need].pos \in capabilities THEN "MATCHED"
    ELSE "UNKNOWN"

\* lines 212-225: the branch taken for one required need
Classify(capabilities, need) ==
    IF CAPABILITY_MAP[need].pos \in capabilities THEN "MATCHED"
    ELSE IF CAPABILITY_MAP[need].neg \in capabilities THEN "FAILED"
    ELSE "UNKNOWN"

\* lines 213, 218, 224: the reason fragment of one required need
NeedFragment(capabilities, need, lang_map) ==
    LET c == Classify(capabilities, need)
    IN  IF c = "MATCHED" THEN lang_map.matched \o ": " \o need
        ELSE IF c = "FAILED"
        THEN lang_map.failed_prefix \o " " \o need \o " " \o
             lang_map.failed_suffix_l \o CAPABILITY_MAP[need].neg \o
             lang_map.failed_suffix_r
        ELSE lang_map.missing \o ": " \o need

\* lines 203-225: final_reason after the loop
NeedFragments(capabilities, required_needs, lang_map) ==
    [i \in 1..Len(required_needs) |->
        NeedFragment(capabilities, required_needs[i], lang_map)]

\* lines 228-233 with BEST_MATCH as soon as one need is matched
CapabilityStatusAnyMatch(capabilities, required_needs) ==
    LET class(i) == Classify(capabilities, required_needs[i])
        idx == 1..Len(required_needs)
    IN  IF \E i \in idx : class(i) = "FAILED" THEN "NOT_SUITABLE"
        ELSE IF \E i \in idx : class(i) = "MATCHED" THEN "BEST_MATCH"
        ELSE "SUITABLE"

\* lines 192-233: the capability status
CapabilityStatus(capabilities, required_needs) ==
    LET class(i) == Classify(capabilities, required_needs[i])
        idx == 1..Len(required_needs)
        is_explicitly_unsuitable == \E i \in idx : class(i) = "FAILED"
        all_needs_met == \A i \in idx : class(i) = "MATCHED"
    IN  IF is_explicitly_unsuitable THEN "NOT_SUITABLE"
        ELSE IF all_needs_met /\ Len(required_needs) > 0 THEN "BEST_MATCH"
        ELSE "SUITABLE"

\* lines 236-248 with the critical override guarded like the warning one
LiveOverrideGuarded(status, final_reason, name, live, lang_map) ==
    IF name \notin DOMAIN live THEN [status |-> status, final_reason |-> final_reason]
    ELSE IF live[name].final_status \in {"CRITICAL_ISSUE", "WARNING"}
            /\ status \notin {"CRITICAL_ISSUE", "NOT_SUITABLE"}
    THEN [status |-> live[name].final_status,
          final_reason |->
            <<(IF live[name].final_status = "WARNING"
               THEN lang_map.warning_prefix
               ELSE lang_map.critical_prefix) \o " " \o live[name].reason>>
            \o final_reason]
    ELSE [status |-> status, final_reason |-> final_reason]

\* lines 236-248 with the warning override applied whatever the status
LiveOverrideWarningAlways(status, final_reason, name, live, lang_map) ==
    IF name \notin DOMAIN live THEN [status |-> status, final_reason |-> final_reason]
    ELSE IF live[name].final_status = "CRITICAL_ISSUE"
    THEN [status |-> "CRITICAL_ISSUE",
          final_reason |->
            <<lang_map.critical_prefix \o " " \o live[name].reason>> \o final_reason]
    ELSE IF live[name].final_status = "WARNING"
    THEN [status |-> "WARNING",
          final_reason |->
            <<lang_map.warning_prefix \o " " \o live[name].reason>> \o final_reason]
    ELSE [status |-> status, final_reason |-> final_reason]

\* lines 236-248: status and final_reason after the live status check
LiveOverride(status, final_reason, name, live, lang_map) ==
    IF name \notin DOMAIN live THEN [status |-> status, final_reason |-> final_reason]
    ELSE IF live[name].final_status = "CRITICAL_ISSUE"
    THEN [status |-> "CRITICAL_ISSUE",
          final_reason |->
            <<lang_map.critical_prefix \o " " \o live[name].reason>> \o final_reason]
    ELSE IF live[name].final_status = "WARNING"
            /\ status \notin {"CRITICAL_ISSUE", "NOT_SUITABLE"}
    THEN [status |-> "WARNING",
          final_reason |->
            <<lang_map.warning_prefix \o " " \o live[name].reason>> \o final_reason]
    ELSE [status |-> status, final_reason |-> final_reason]

\* line 262: the reason string
RenderReason(final_reason) == "(" \o Join(final_reason, " | ") \o ")"

\* lines 190-264: the item built for one center
Recommendation(pps, needs, live, lang_map) ==
    LET capabilities == Get(pps, "capabilities", {})
        required_needs == RequiredNeeds(needs)
        o == LiveOverride(CapabilityStatus(capabilities, required_needs),
                          NeedFragments(capabilities, required_needs, lang_map),
                          pps.name, live, lang_map)
        final_reason ==
            IF o.status \notin {"CRITICAL_ISSUE", "WARNING", "NOT_SUITABLE"}
            THEN Append(o.final_reason, lang_map.no_report)
            ELSE o.final_reason
    IN  [type |-> "PPS_RECOMMENDATION",
         name |-> pps.name,
         lat |-> pps.lat,
         lon |-> pps.lon,
         status |-> o.status,
         reason |-> RenderReason(final_reason),
         distance_km |-> pps.distance_km]

----------------------------------------------------------------------------
(* run_actions: ranking and the two results *)

\* STATUS_RANKING.get(status, 99)
StatusRank(status) ==
    IF status \in DOMAIN STATUS_RANKING THEN STATUS_RANKING[status] ELSE 99

\* lines 267-270 and 286 with the distance alone as key
SortKeyLEDistanceOnly(x, y) == x.distance_km <= y.distance_km

\* lines 267-270 and 286 with only the status rank as key
SortKeyLERankOnly(x, y) == StatusRank(x.status) <= StatusRank(y.status)

\* lines 267-270 and 286: key(x) <= key(y) for the key (rank, distance_km)
SortKeyLE(x, y) ==
    \/ StatusRank(x.status) < StatusRank(y.status)
    \/ /\ StatusRank(x.status) = StatusRank(y.status)
       /\ x.distance_km <= y.distance_km

\* one insertion of a stable sort: x goes after every item whose key is <= its own
RECURSIVE InsertByKey(_, _)
InsertByKey(sorted, x) ==
    IF Len(sorted) = 0 THEN <<x>>
    ELSE IF SortKeyLE(sorted[1], x)
    THEN <<sorted[1]>> \o InsertByKey(Tail(sorted), x)
    ELSE <<x>> \o sorted

\* list.sort / sorted with the key above (stable)
RECURSIVE SortByKey(_)
SortByKey(items) ==
    IF Len(items) = 0 THEN <<>>
    ELSE InsertByKey(SortByKey(SubSeq(items, 1, Len(items) - 1)), items[Len(items)])

\* lines 179-272 with the centers that fail a need left out
RankedActionsSuitableOnly(all_pps_with_distance, needs, live, lang_map) ==
    SortByKey(SelectSeq([i \in 1..Len(all_pps_with_distance) |->
                            Recommendation(all_pps_with_distance[i], needs, live, lang_map)],
                        LAMBDA item : item.status # "NOT_SUITABLE"))

\* lines 179-272: the ranked list
RankedActions(all_pps_with_distance, needs, live, lang_map) ==
    SortByKey([i \in 1..Len(all_pps_with_distance) |->
                  Recommendation(all_pps_with_distance[i], needs, live, lang_map)])

\* lines 280-285: one entry of the fallback listing
FallbackEntry(pps, live) ==
    [name |-> pps.name,
     status |-> IF pps.name \in DOMAIN live THEN live[pps.name].final_status ELSE "OK",
     distance_km |-> pps.distance_km]

\* lines 277-293: the fallback result
FallbackResult(all_pps_with_distance, live, lang_map, query) ==
    <<[type |-> "PPS_NEAREST_FALLBACK",
       message |-> lang_map.fallback_msg_l \o query \o lang_map.fallback_msg_r,
       recommendations |->
          SortByKey([i \in 1..Len(all_pps_with_distance) |->
                        FallbackEntry(all_pps_with_distance[i], live)])]>>

\* line 164 with the Malay table as the default
LangMapDefaultMalay(language) ==
    IF Lower(language) \in DOMAIN TRANSLATION_MAP
    THEN TRANSLATION_MAP[Lower(language)]
    ELSE TRANSLATION_MAP["ms"]

\* line 164
LangMap(language) ==
    IF Lower(language) \in DOMAIN TRANSLATION_MAP
    THEN TRANSLATION_MAP[Lower(language)]
    ELSE TRANSLATION_MAP["en"]

\* lines 160-161: the center list the call works on
CentersForCall(centers, data_file) ==
    IF Len(centers) = 0 THEN LoadPpsData(data_file) ELSE centers

\* lines 179-293: the value returned, given all_pps_with_distance
RunActionsFrom(all_pps_with_distance, live, query, language) ==
    LET needs == extract_needs(query)
    IN  IF NeedsDetected(needs)
        THEN RankedActions(all_pps_with_distance, needs, live, LangMap(language))
        ELSE FallbackResult(all_pps_with_distance, live, LangMap(language), query)

\* lines 154-293: the value run_actions returns
RunActionsResult(centers, live, query, lat, lon, language) ==
    RunActionsFrom(AllPpsWithDistance(centers, lat, lon), live, query, language)

----------------------------------------------------------------------------
(* Bounds and inputs *)

MaxReports == 2

MaxTicks == 2

MaxLogLen == 3

MaxWords == 2

\* a clock advance: half a window
TickSteps == {REPORT_TIMEOUT_SEC \div 2}

StartTime == 10 * REPORT_TIMEOUT_SEC

ReportedCenters == {"A", "B"}

ReportStatuses == {"FULL", "NO_FOOD"}

ReporterIds == {"r1", "r2"}

AllTags ==
    {CAPABILITY_MAP[n].pos : n \in DOMAIN CAPABILITY_MAP}
        \cup {CAPABILITY_MAP[n].neg : n \in DOMAIN CAPABILITY_MAP}

\* the phrases queries are made of, in reading order
Vocabulary ==
    <<"Hello", "grandmother in Wheelchair", "accessible toilet", "no pets",
      "keluarga", "tandas OKU">>

RECURSIVE WordsOf(_, _)
WordsOf(picked, i) ==
    IF i > Len(Vocabulary) THEN <<>>
    ELSE (IF i \in picked THEN <<Vocabulary[i]>> ELSE <<>>) \o WordsOf(picked, i + 1)

\* the queries of up to k phrases
QueriesUpTo(k) ==
    {Join(WordsOf(picked, 1), " ") :
        picked \in {p \in SUBSET (1..Len(Vocabulary)) : Cardinality(p) <= k}}

\* the requests of the running service
ServiceQueries == {"Hello", "no pets", "grandmother in Wheelchair with a cat"}

ServiceLocations == {<<0, 0>>}

ServiceLanguages == {"en", "ms"}

\* the centers of the data file: A and B as in the end-to-end scenario, C with
\* no capability information, D without coordinates
Center(name, lat, lon, capabilities) ==
    [name |-> name, lat |-> lat, lon |-> lon, capabilities |-> capabilities]

DefaultCenters ==
    <<Center("A", 0, 0, {"stairs_only", "no_pets"}),
      Center("B", 2, 1, {"ground_floor", "designated_pet_area"}),
      Center("C", 1, 0, {}),
      [name |-> "D", capabilities |-> {"ground_floor"}]>>

Report(pps_name, status, reporter_id, timestamp) ==
    [pps_name |-> pps_name, status |-> status, reporter_id |-> reporter_id,
     timestamp |-> timestamp]

----------------------------------------------------------------------------
(* The process *)

\* the worker threads of the server's thread pool (both handlers are plain
\* def functions, which the framework runs on pool threads)
Threads == {"t1", "t2"}

\* no request in flight
NoRequests == [t \in Threads |-> [pc |-> "idle"]]

\* what the process may find in place of pps_live_status.json when it starts
FileStates == {"ok", "missing", "invalid_json", "undecodable"}

\* the module globals before the module code has run (lines 56-57)
Init ==
    /\ phase = "import"
    /\ ppsDataFile = DefaultCenters
    /\ reportsFile \in {[state |-> s, reports |-> <<>>] : s \in FileStates}
    /\ now = StartTime
    /\ PPS_CENTERS = <<>>
    /\ LIVE_REPORTS_AGGREGATED = EmptyMap
    /\ acked = <<>>
    /\ ticks = 0
    /\ threads = NoRequests
    /\ response = [op |-> "none"]

\* app.py is imported: action_runner's module code (lines 297-298) runs first,
\* then app.py lines 59-61 create the report file when there is none; an
\* exception leaving refresh_live_reports_from_disk ends the import, and with
\* it the process
ModuleInit ==
    /\ phase = "import"
    /\ PPS_CENTERS' = LoadPpsData(ppsDataFile)
    /\ LIVE_REPORTS_AGGREGATED' = RefreshLiveReports(reportsFile, now)
    /\ IF RefreshRaises(reportsFile)
       THEN /\ phase' = "crashed"
            /\ reportsFile' = reportsFile
            /\ response' = [op |-> "import", error |-> "UnicodeDecodeError"]
       ELSE /\ phase' = "serving"
            /\ reportsFile' = IF reportsFile.state = "missing"
                              THEN [state |-> "ok", reports |-> <<>>]
                              ELSE reportsFile
            /\ response' = [op |-> "import"]
    /\ UNCHANGED <<ppsDataFile, now, acked, ticks, threads>>

\* the server process is stopped; a new one starts from the module globals
Restart ==
    /\ phase = "serving"
    /\ phase' = "import"
    /\ PPS_CENTERS' = <<>>
    /\ LIVE_REPORTS_AGGREGATED' = EmptyMap
    /\ acked' = <<>>
    /\ response' = [op |-> "restart"]
    /\ UNCHANGED <<ppsDataFile, reportsFile, now, ticks, threads>>

\* time passes
Tick ==
    /\ ticks < MaxTicks
    /\ \E d \in TickSteps : now' = now + d
    /\ ticks' = ticks + 1
    /\ response' = [op |-> "idle"]
    /\ UNCHANGED <<phase, ppsDataFile, reportsFile, PPS_CENTERS,
                   LIVE_REPORTS_AGGREGATED, acked, threads>>

\* app.py lines 147-152: existing_reports
ExistingReports(file) == IF FileReadable(file) THEN file.reports ELSE <<>>

\* app.py lines 136-164: POST /api/report_pps_status
ReportPpsStatus ==
    /\ phase = "serving"
    /\ Len(ExistingReports(reportsFile)) < MaxReports
    /\ \E pps_name \in ReportedCenters, status \in ReportStatuses,
          reporter_id \in ReporterIds :
          LET report_data == Report(pps_name, status, reporter_id, now)
          IN  /\ reportsFile' =
                    [state |-> "ok",
                     reports |-> Append(ExistingReports(reportsFile), report_data)]
              /\ acked' = Append(acked, report_data)
              /\ response' = [op |-> "report_pps_status", status |-> "ok",
                              report |-> report_data]
    /\ UNCHANGED <<phase, ppsDataFile, now, PPS_CENTERS,
                   LIVE_REPORTS_AGGREGATED, ticks, threads>>

\* action_runner.py lines 154-293: a call run_actions(query, lat, lon, language)
\* with the arguments drawn from the given sets; the response shows the
\* value returned and the needs dict of line 167
RunActionsCall(queries, locations, languages) ==
    /\ phase = "serving"
    /\ \E query \in queries, loc \in locations, language \in languages :
          LET centers == CentersForCall(PPS_CENTERS, ppsDataFile)
          IN  /\ PPS_CENTERS' = CentersAfterDistance(centers, loc[1], loc[2])
              /\ response' =
                    [op |-> "run_actions", query |-> query, lat |-> loc[1],
                     lon |-> loc[2], language |-> language,
                     needs |-> extract_needs(query),
                     result |-> RunActionsResult(centers, LIVE_REPORTS_AGGREGATED,
                                                 query, loc[1], loc[2], language)]
    /\ UNCHANGED <<phase, ppsDataFile, reportsFile, now,
                   LIVE_REPORTS_AGGREGATED, acked, ticks, threads>>

RunActions == RunActionsCall(ServiceQueries, ServiceLocations, ServiceLanguages)

\* rag_service.py lines 167-201 with DOCUMENTS as rag_service leaves it at
\* import (line 30): no document matches
SearchDocuments(query, language) ==
    [retrieved_context |-> "No relevant context found in documents.",
     source |-> "N/A", query |-> query, language |-> language]

\* the parameters of run_actions without a default (line 154)
RunActionsRequired == <<"query", "lat", "lon">>

\* app.py line 77: the positional arguments of the call to run_actions
RunActionsArgs(query, retrieved_context) == <<query, retrieved_context>>

\* app.py lines 65-87: POST /api/query; binding the arguments of line 77 to the
\* parameters of run_actions raises TypeError when a required one is left
\* over, and nothing in the handler catches it
QueryApi ==
    /\ phase = "serving"
    /\ \E query \in ServiceQueries, language \in ServiceLanguages :
          LET result == SearchDocuments(query, language)
              args == RunActionsArgs(query, result.retrieved_context)
          IN  IF Len(args) < Len(RunActionsRequired)
              THEN /\ response' = [op |-> "query_api", error |-> "TypeError"]
                   /\ UNCHANGED PPS_CENTERS
              ELSE LET centers == CentersForCall(PPS_CENTERS, ppsDataFile)
                   IN  /\ PPS_CENTERS' = CentersAfterDistance(centers, args[2], args[3])
                       /\ response' =
                             [op |-> "query_api", error |-> None,
                              actions |-> RunActionsResult(
                                  centers, LIVE_REPORTS_AGGREGATED, query,
                                  args[2], args[3], "en")]
    /\ UNCHANGED <<phase, ppsDataFile, reportsFile, now,
                   LIVE_REPORTS_AGGREGATED, acked, ticks, threads>>

Next ==
    \/ ModuleInit
    \/ Restart
    \/ Tick
    \/ ReportPpsStatus
    \/ RunActions
    \/ QueryApi

Spec == Init /\ [][Next]_vars

----------------------------------------------------------------------------
(* Consensus over stored logs: the process starts on a report file left by   *)
(* earlier runs.                                                             *)

\* ages of the stored reports when the process starts: seven hours, the
\* timeout exactly, one second less, and none
ReportAges == {7 * 60 * 60, REPORT_TIMEOUT_SEC, REPORT_TIMEOUT_SEC - 1, 0}

StoredStatuses == {"FULL", "critical_issue", "NO_FOOD", "WARNING"}

StoredReports ==
    {Report(c, s, "r1", StartTime - a) :
        c \in ReportedCenters, s \in StoredStatuses, a \in ReportAges}

\* logs as report_pps_status leaves them: timestamps never decrease
StoredLogs ==
    UNION {{log \in [1..n -> StoredReports] :
               \A i \in 1..(n - 1) : log[i].timestamp <= log[i + 1].timestamp} :
           n \in 0..MaxLogLen}

InitConsensus ==
    /\ phase = "import"
    /\ ppsDataFile = DefaultCenters
    /\ reportsFile \in {[state |-> "ok", reports |-> log] : log \in StoredLogs}
    /\ now = StartTime
    /\ PPS_CENTERS = <<>>
    /\ LIVE_REPORTS_AGGREGATED = EmptyMap
    /\ acked = <<>>
    /\ ticks = 0
    /\ threads = NoRequests
    /\ response = [op |-> "none"]

NextConsensus == ModuleInit

SpecConsensus == InitConsensus /\ [][NextConsensus]_vars

----------------------------------------------------------------------------
(* Matching and ranking: the first run_actions call of a process, over every *)
(* capability set of center A and over short stored logs.                    *)

MatchQueries == QueriesUpTo(MaxWords)

MatchLocations == {<<0, 0>>, <<1, 1>>}

MatchLanguages == {"en", "ms"}

MatchCapabilities ==
    {{}, {"no_pets"}, {"ground_floor", "stairs_only"},
     {"ground_floor", "oku_toilets", "designated_pet_area", "family_room"}}

MatchReports ==
    {Report(c, s, "r1", StartTime) : c \in ReportedCenters, s \in {"FULL", "NO_FOOD"}}

MatchLogs == UNION {[1..n -> MatchReports] : n \in 0..MaxReports}

MatchCenters(capabilities) ==
    <<Center("A", 0, 0, capabilities),
      Center("B", 2, 1, {"ground_floor", "designated_pet_area"}),
      Center("C", 1, 0, {}),
      [name |-> "D", capabilities |-> {"ground_floor"}]>>

InitMatch ==
    /\ phase = "import"
    /\ \/ /\ ppsDataFile \in {MatchCenters(caps) : caps \in SUBSET AllTags}
          /\ reportsFile = [state |-> "ok", reports |-> <<>>]
       \/ /\ ppsDataFile \in {MatchCenters(caps) : caps \in MatchCapabilities}
          /\ reportsFile \in {[state |-> "ok", reports |-> log] : log \in MatchLogs}
    /\ now = StartTime
    /\ PPS_CENTERS = <<>>
    /\ LIVE_REPORTS_AGGREGATED = EmptyMap
    /\ acked = <<>>
    /\ ticks = 0
    /\ threads = NoRequests
    /\ response = [op |-> "none"]

\* the first request a process serves
FirstRunActions ==
    /\ response.op = "import"
    /\ RunActionsCall(MatchQueries, MatchLocations, MatchLanguages)

NextMatch ==
    \/ ModuleInit
    \/ FirstRunActions

SpecMatch == InitMatch /\ [][NextMatch]_vars

----------------------------------------------------------------------------
(* Stored logs with malformed records: records without pps_name or without  *)
(* timestamp among well-formed ones.                                         *)

MalformedReports ==
    {[status |-> s, reporter_id |-> "r1", timestamp |-> StartTime] :
        s \in {"FULL", "NO_FOOD"}}
    \cup {[pps_name |-> c, status |-> s, reporter_id |-> "r1"] :
            c \in ReportedCenters, s \in {"FULL", "NO_FOOD"}}

WellFormedReports ==
    {Report(c, s, "r1", StartTime - a) :
        c \in ReportedCenters, s \in {"FULL", "NO_FOOD"}, a \in {0, 7 * 60 * 60}}

MixedLogs ==
    UNION {[1..n -> MalformedReports \cup WellFormedReports] : n \in 0..MaxLogLen}

InitMalformed ==
    /\ phase = "import"
    /\ ppsDataFile = DefaultCenters
    /\ reportsFile \in {[state |-> "ok", reports |-> log] : log \in MixedLogs}
    /\ now = StartTime
    /\ PPS_CENTERS = <<>>
    /\ LIVE_REPORTS_AGGREGATED = EmptyMap
    /\ acked = <<>>
    /\ ticks = 0
    /\ threads = NoRequests
    /\ response = [op |-> "none"]

NextMalformed == ModuleInit

SpecMalformed == InitMalformed /\ [][NextMalformed]_vars

----------------------------------------------------------------------------
(* Language codes: the first run_actions call of a process, over language    *)
(* codes with and without a phrase table.                                    *)

LanguageCodes == {"en", "ms", "MS", "En", "fr", "zh-CN", ""}

InitLanguage ==
    /\ phase = "import"
    /\ ppsDataFile = DefaultCenters
    /\ reportsFile \in {[state |-> "ok", reports |-> log] : log \in MatchLogs}
    /\ now = StartTime
    /\ PPS_CENTERS = <<>>
    /\ LIVE_REPORTS_AGGREGATED = EmptyMap
    /\ acked = <<>>
    /\ ticks = 0
    /\ threads = NoRequests
    /\ response = [op |-> "none"]

FirstLanguageCall ==
    /\ response.op = "import"
    /\ RunActionsCall(ServiceQueries, MatchLocations, LanguageCodes)

NextLanguage ==
    \/ ModuleInit
    \/ FirstLanguageCall

SpecLanguage == InitLanguage /\ [][NextLanguage]_vars

----------------------------------------------------------------------------
(* Center records with and without coordinates: the first run_actions call   *)
(* of a process whose data file has centers lacking lat, lon or both.        *)

CoordinateKinds == {"both", "lat", "lon", "none"}

\* a center record of the data file with the coordinates its kind names
CenterOfKind(name, lat, lon, capabilities, kind) ==
    CASE kind = "both" -> Center(name, lat, lon, capabilities)
      [] kind = "lat" -> [name |-> name, lat |-> lat, capabilities |-> capabilities]
      [] kind = "lon" -> [name |-> name, lon |-> lon, capabilities |-> capabilities]
      [] kind = "none" -> [name |-> name, capabilities |-> capabilities]

CoverageCenterLists ==
    {<<CenterOfKind("A", 0, 0, {"no_pets"}, ka),
       CenterOfKind("B", 2, 1, {"designated_pet_area"}, kb),
       CenterOfKind("C", 1, 0, {}, kc)>> :
        ka \in CoordinateKinds, kb \in CoordinateKinds, kc \in CoordinateKinds}

CoverageQueries == {"no pets", "Hello"}

InitCoverage ==
    /\ phase = "import"
    /\ ppsDataFile \in CoverageCenterLists
    /\ reportsFile \in {[state |-> "ok", reports |-> log] : log \in MatchLogs}
    /\ now = StartTime
    /\ PPS_CENTERS = <<>>
    /\ LIVE_REPORTS_AGGREGATED = EmptyMap
    /\ acked = <<>>
    /\ ticks = 0
    /\ threads = NoRequests
    /\ response = [op |-> "none"]

FirstCoverageCall ==
    /\ response.op = "import"
    /\ RunActionsCall(CoverageQueries, MatchLocations, {"en"})

NextCoverage ==
    \/ ModuleInit
    \/ FirstCoverageCall

SpecCoverage == InitCoverage /\ [][NextCoverage]_vars

----------------------------------------------------------------------------
(* Concurrent requests: the handlers run on the threads of a pool, so the    *)
(* steps of one call interleave with the steps of another. A call is split   *)
(* where it reads or writes the shared state: the center records, the        *)
(* aggregated map and the report file.                                       *)

ThreadQueries == {"no pets", "Hello"}

ThreadLocations == {<<0, 0>>, <<2, 1>>}

ThreadLanguages == {"en"}

\* the reports the process finds at start: FULL reports a minute old
ThreadLogs ==
    UNION {[1..n -> {Report(c, "FULL", "r1", StartTime - 60) : c \in ReportedCenters}] :
           n \in 0..MaxReports}

InitThreads ==
    /\ phase = "import"
    /\ ppsDataFile = DefaultCenters
    /\ reportsFile \in {[state |-> "ok", reports |-> log] : log \in ThreadLogs}
    /\ now = StartTime
    /\ PPS_CENTERS = <<>>
    /\ LIVE_REPORTS_AGGREGATED = EmptyMap
    /\ acked = <<>>
    /\ ticks = 0
    /\ threads = NoRequests
    /\ response = [op |-> "none"]

Idle(t) == threads[t].pc = "idle"

\* an intermediate step of a call: nothing is returned yet
Working == [op |-> "working"]

\* action_runner.py lines 160-177: the call writes distance_km, computed from
\* its own location, into the shared center records
RunActionsDistances(t) ==
    /\ phase = "serving"
    /\ Idle(t)
    /\ \E query \in ThreadQueries, loc \in ThreadLocations, language \in ThreadLanguages :
          /\ PPS_CENTERS' = CentersAfterDistance(
                                CentersForCall(PPS_CENTERS, ppsDataFile), loc[1], loc[2])
          /\ threads' = [threads EXCEPT ![t] =
                            [pc |-> "run_actions", query |-> query, lat |-> loc[1],
                             lon |-> loc[2], language |-> language]]
    /\ response' = Working
    /\ UNCHANGED <<phase, ppsDataFile, reportsFile, now,
                   LIVE_REPORTS_AGGREGATED, acked, ticks>>

\* the refresh calls in progress, as a reader could meet them
RebuildsInProgress ==
    {[old |-> threads[t].old, new |-> threads[t].entries] :
        t \in {u \in Threads : threads[u].pc = "refresh"}}

\* action_runner.py lines 179-293: the call builds its result; all_pps_with_distance
\* holds the shared records, so distance_km (lines 263, 284) and the aggregated
\* map (lines 236, 283) are read as they are now
RunActionsReturn(t) ==
    /\ threads[t].pc = "run_actions"
    /\ response' =
          [op |-> "run_actions", query |-> threads[t].query, lat |-> threads[t].lat,
           lon |-> threads[t].lon, language |-> threads[t].language,
           live |-> LIVE_REPORTS_AGGREGATED,
           rebuilds |-> RebuildsInProgress,
           result |-> RunActionsFrom(SelectSeq(PPS_CENTERS, HasCoordinates),
                                     LIVE_REPORTS_AGGREGATED, threads[t].query,
                                     threads[t].language)]
    /\ threads' = [threads EXCEPT ![t] = [pc |-> "idle"]]
    /\ UNCHANGED <<phase, ppsDataFile, reportsFile, now, PPS_CENTERS,
                   LIVE_REPORTS_AGGREGATED, acked, ticks>>

\* the submissions accepted and not yet answered
ReportsInFlight == {t \in Threads : threads[t].pc \in {"report", "report_dump"}}

\* app.py lines 143-152: the handler stamps the report and reads the file
ReportRead(t) ==
    /\ phase = "serving"
    /\ Idle(t)
    /\ Len(acked) + Cardinality(ReportsInFlight) < MaxReports
    /\ \E pps_name \in ReportedCenters, reporter_id \in ReporterIds :
          threads' = [threads EXCEPT ![t] =
                         [pc |-> "report",
                          report_data |-> Report(pps_name, "FULL", reporter_id, now),
                          existing_reports |-> ExistingReports(reportsFile)]]
    /\ response' = Working
    /\ UNCHANGED <<phase, ppsDataFile, reportsFile, now, PPS_CENTERS,
                   LIVE_REPORTS_AGGREGATED, acked, ticks>>

\* app.py lines 155-164: the handler writes the list it read, with its report
\* appended, over the file and answers ok
ReportWrite(t) ==
    /\ threads[t].pc = "report"
    /\ reportsFile' = [state |-> "ok",
                       reports |-> Append(threads[t].existing_reports,
                                          threads[t].report_data)]
    /\ acked' = Append(acked, threads[t].report_data)
    /\ response' = [op |-> "report_pps_status", status |-> "ok",
                    report |-> threads[t].report_data]
    /\ threads' = [threads EXCEPT ![t] = [pc |-> "idle"]]
    /\ UNCHANGED <<phase, ppsDataFile, now, PPS_CENTERS,
                   LIVE_REPORTS_AGGREGATED, ticks>>

\* app.py lines 158-159: open(..., "w") empties the file before anything is
\* written; an empty file is text that json.load rejects. replaced is the
\* content the file had.
ReportTruncate(t) ==
    /\ threads[t].pc = "report"
    /\ reportsFile' = [state |-> "invalid_json", reports |-> <<>>]
    /\ threads' = [threads EXCEPT ![t] =
                      [pc |-> "report_dump",
                       report_data |-> threads[t].report_data,
                       existing_reports |-> threads[t].existing_reports,
                       replaced |-> ExistingReports(reportsFile)]]
    /\ response' = Working
    /\ UNCHANGED <<phase, ppsDataFile, now, PPS_CENTERS,
                   LIVE_REPORTS_AGGREGATED, acked, ticks>>

\* app.py lines 160-164: json.dump writes the list and the handler answers ok
ReportDump(t) ==
    /\ threads[t].pc = "report_dump"
    /\ reportsFile' = [state |-> "ok",
                       reports |-> Append(threads[t].existing_reports,
                                          threads[t].report_data)]
    /\ acked' = Append(acked, threads[t].report_data)
    /\ response' = [op |-> "report_pps_status", status |-> "ok",
                    report |-> threads[t].report_data]
    /\ threads' = [threads EXCEPT ![t] = [pc |-> "idle"]]
    /\ UNCHANGED <<phase, ppsDataFile, now, PPS_CENTERS,
                   LIVE_REPORTS_AGGREGATED, ticks>>

\* the submissions that are rewriting the file: the log each replaces and the
\* log it is writing
RewritesInProgress ==
    {[before |-> threads[t].replaced,
      after |-> Append(threads[t].existing_reports, threads[t].report_data)] :
        t \in {u \in Threads : threads[u].pc = "report_dump"}}

\* lines 84-90: the keys of reports_by_pps in insertion order
RECURSIVE NamesInOrder(_, _)
NamesInOrder(recent_reports, seen) ==
    IF Len(recent_reports) = 0 THEN <<>>
    ELSE LET r == Head(recent_reports)
         IN  IF HasPpsName(r) /\ r.pps_name \notin seen
             THEN <<r.pps_name>> \o
                  NamesInOrder(Tail(recent_reports), seen \cup {r.pps_name})
             ELSE NamesInOrder(Tail(recent_reports), seen)

\* lines 67-90 without the assignment of line 68
RefreshBeginKeepsMap(t) ==
    /\ phase = "serving"
    /\ Idle(t)
    /\ \A u \in Threads : threads[u].pc # "refresh"
    /\ LIVE_REPORTS_AGGREGATED' = LIVE_REPORTS_AGGREGATED
    /\ threads' = [threads EXCEPT ![t] =
                      [pc |-> "refresh",
                       pending |-> NamesInOrder(RecentReports(ExistingReports(reportsFile), now), {}),
                       entries |-> RefreshLiveReports(reportsFile, now),
                       old |-> LIVE_REPORTS_AGGREGATED,
                       file |-> reportsFile,
                       current_time |-> now,
                       rewrites |-> RewritesInProgress]]
    /\ response' = Working
    /\ UNCHANGED <<phase, ppsDataFile, reportsFile, now, PPS_CENTERS, acked, ticks>>

\* action_runner.py lines 67-90: a call of refresh_live_reports_from_disk binds
\* the global to an empty dict, takes the time, then reads and groups the
\* reports; a file that does not parse leaves nothing to store. The call keeps
\* the entries to store (entries, pending); old is the map it replaced, file
\* and current_time what it read, rewrites the submissions that were
\* rewriting the file at that moment.
RefreshBegin(t) ==
    /\ phase = "serving"
    /\ Idle(t)
    /\ \A u \in Threads : threads[u].pc # "refresh"
    /\ LIVE_REPORTS_AGGREGATED' = EmptyMap
    /\ threads' = [threads EXCEPT ![t] =
                      [pc |-> "refresh",
                       pending |-> NamesInOrder(RecentReports(ExistingReports(reportsFile), now), {}),
                       entries |-> RefreshLiveReports(reportsFile, now),
                       old |-> LIVE_REPORTS_AGGREGATED,
                       file |-> reportsFile,
                       current_time |-> now,
                       rewrites |-> RewritesInProgress]]
    /\ response' = Working
    /\ UNCHANGED <<phase, ppsDataFile, reportsFile, now, PPS_CENTERS, acked, ticks>>

\* action_runner.py lines 93-119: one pass of the loop stores one entry
RefreshStore(t) ==
    /\ threads[t].pc = "refresh"
    /\ Len(threads[t].pending) > 0
    /\ LET pps_name == Head(threads[t].pending)
       IN  LIVE_REPORTS_AGGREGATED' =
              [k \in DOMAIN LIVE_REPORTS_AGGREGATED \cup {pps_name} |->
                  IF k = pps_name THEN threads[t].entries[pps_name]
                  ELSE LIVE_REPORTS_AGGREGATED[k]]
    /\ threads' = [threads EXCEPT ![t].pending = Tail(threads[t].pending)]
    /\ response' = Working
    /\ UNCHANGED <<phase, ppsDataFile, reportsFile, now, PPS_CENTERS, acked, ticks>>

\* the loop is over: the call returns
RefreshReturn(t) ==
    /\ threads[t].pc = "refresh"
    /\ Len(threads[t].pending) = 0
    /\ threads' = [threads EXCEPT ![t] = [pc |-> "idle"]]
    /\ response' = [op |-> "refresh", old |-> threads[t].old,
                    file |-> threads[t].file,
                    current_time |-> threads[t].current_time,
                    rewrites |-> threads[t].rewrites]
    /\ UNCHANGED <<phase, ppsDataFile, reportsFile, now, PPS_CENTERS,
                   LIVE_REPORTS_AGGREGATED, acked, ticks>>

NextThreads ==
    \/ ModuleInit
    \/ \E t \in Threads : RunActionsDistances(t)
    \/ \E t \in Threads : RunActionsReturn(t)
    \/ \E t \in Threads : ReportRead(t)
    \/ \E t \in Threads : ReportWrite(t)
    \/ \E t \in Threads : RefreshBegin(t)
    \/ \E t \in Threads : RefreshStore(t)
    \/ \E t \in Threads : RefreshReturn(t)

SpecThreads == InitThreads /\ [][NextThreads]_vars

\* The report store under rebuilds: submissions with the rewrite of the file
\* in its two steps, rebuilds, and the clock.
NextStore ==
    \/ ModuleInit
    \/ Tick
    \/ \E t \in Threads : ReportRead(t)
    \/ \E t \in Threads : ReportTruncate(t)
    \/ \E t \in Threads : ReportDump(t)
    \/ \E t \in Threads : RefreshBegin(t)
    \/ \E t \in Threads : RefreshStore(t)
    \/ \E t \in Threads : RefreshReturn(t)

SpecStore == InitThreads /\ [][NextStore]_vars

----------------------------------------------------------------------------
(* Properties *)

\* the needs-detected path was taken by the call that produced the response
RankedResponse ==
    /\ response.op = "run_actions"
    /\ NeedsDetected(extract_needs(response.query))

\* the fallback path was taken by the call that produced the response
FallbackResponse ==
    /\ response.op = "run_actions"
    /\ ~NeedsDetected(extract_needs(response.query))

\* the centers of the data file that have both coordinates
LocatedCenters ==
    {ppsDataFile[i] : i \in {j \in 1..Len(ppsDataFile) : HasCoordinates(ppsDataFile[j])}}

\* the needs the query of the response flags
RequiredOfResponse ==
    {need \in DOMAIN CAPABILITY_MAP : extract_needs(response.query)[need]}

\* the phrase table of the language of the response
PhrasesOfResponse ==
    IF Lower(response.language) = "ms" THEN TRANSLATION_MAP["ms"]
    ELSE TRANSLATION_MAP["en"]

\* the reports of the file for center c that are critical (status FULL or
\* CRITICAL_ISSUE, letter case ignored as on line 98) and younger than six hours
FreshCritical(c) ==
    {i \in 1..Len(reportsFile.reports) :
        /\ reportsFile.reports[i].pps_name = c
        /\ now - reportsFile.reports[i].timestamp < 6 * 60 * 60
        /\ Upper(reportsFile.reports[i].status) \in {"FULL", "CRITICAL_ISSUE"}}

\* C1: once report_pps_status has acknowledged a report, the next run_actions
\* call of the same process uses a live-status map that includes it; after two
\* acknowledged FULL reports for one center from different reporter_ids, a
\* query with detected needs that follows at once lists that center as
\* CRITICAL_ISSUE.
ReportVisibleToNextQuery ==
    response.op = "run_actions" =>
        /\ \A i \in 1..Len(acked) :
              now - acked[i].timestamp < REPORT_TIMEOUT_SEC =>
                  /\ acked[i].pps_name \in DOMAIN LIVE_REPORTS_AGGREGATED
                  /\ LIVE_REPORTS_AGGREGATED[acked[i].pps_name].latest_timestamp
                        >= acked[i].timestamp
        /\ \A c \in LocatedCenters :
              (/\ RankedResponse
               /\ \E i, j \in 1..Len(acked) :
                     /\ acked[i].pps_name = c.name /\ acked[j].pps_name = c.name
                     /\ acked[i].status = "FULL" /\ acked[j].status = "FULL"
                     /\ acked[i].reporter_id # acked[j].reporter_id
                     /\ acked[i].timestamp = now /\ acked[j].timestamp = now)
              => \E k \in 1..Len(response.result) :
                     /\ response.result[k].name = c.name
                     /\ response.result[k].status = "CRITICAL_ISSUE"

\* C2: at every run_actions call the live status applied is the consensus over
\* exactly the log records younger than REPORT_TIMEOUT_SEC at the time of the
\* call; a report six hours old or older influences nothing.
FreshAtQueryTime ==
    response.op = "run_actions" =>
        /\ LIVE_REPORTS_AGGREGATED = RefreshLiveReports(reportsFile, now)
        /\ \A c \in DOMAIN LIVE_REPORTS_AGGREGATED :
              \E i \in 1..Len(reportsFile.reports) :
                  /\ reportsFile.reports[i].pps_name = c
                  /\ now - reportsFile.reports[i].timestamp < REPORT_TIMEOUT_SEC

\* C3: a rebuild gives a center CRITICAL_ISSUE when at least 2 of its reports
\* younger than six hours are critical, and WARNING when exactly 1 is, whatever
\* other or expired reports the center has.
ConsensusThresholdInWindow ==
    response.op = "import" =>
        \A c \in ReportedCenters :
            /\ Cardinality(FreshCritical(c)) >= 2 =>
                  /\ c \in DOMAIN LIVE_REPORTS_AGGREGATED
                  /\ LIVE_REPORTS_AGGREGATED[c].final_status = "CRITICAL_ISSUE"
            /\ Cardinality(FreshCritical(c)) = 1 =>
                  /\ c \in DOMAIN LIVE_REPORTS_AGGREGATED
                  /\ LIVE_REPORTS_AGGREGATED[c].final_status = "WARNING"

\* C3 witness: two critical reports of one center, one of them seven hours old,
\* rebuilt to WARNING
ExpiredCriticalGivesWarning ==
    /\ response.op = "import"
    /\ \E c \in ReportedCenters :
          /\ Cardinality(FreshCritical(c)) = 1
          /\ \E i \in 1..Len(reportsFile.reports) :
                /\ reportsFile.reports[i].pps_name = c
                /\ reportsFile.reports[i].status = "FULL"
                /\ now - reportsFile.reports[i].timestamp = 7 * 60 * 60
          /\ LIVE_REPORTS_AGGREGATED[c].final_status = "WARNING"

\* C4: a center is CRITICAL_ISSUE only if at least 2 critical reports from
\* distinct reporter_ids lie within the window; critical reports of a single
\* reporter_id give at most WARNING.
CriticalNeedsIndependentReporters ==
    response.op = "import" =>
        \A c \in DOMAIN LIVE_REPORTS_AGGREGATED :
            LIVE_REPORTS_AGGREGATED[c].final_status = "CRITICAL_ISSUE" =>
                Cardinality({reportsFile.reports[i].reporter_id :
                                i \in FreshCritical(c)}) >= 2

\* C5: every request to query_api ends with a response that carries the
\* actions list of run_actions, never with an unhandled error.
QueryAlwaysAnswered ==
    response.op = "query_api" =>
        /\ response.error = None
        /\ "actions" \in DOMAIN response

\* C6: in the needs-detected path every center whose live final_status is
\* CRITICAL_ISSUE is listed as CRITICAL_ISSUE whatever its capabilities, and
\* its reason (after the opening parenthesis) starts with the localized
\* critical prefix followed by the live reason.
CriticalOverridesCapability ==
    RankedResponse =>
        \A c \in LocatedCenters :
            (/\ c.name \in DOMAIN LIVE_REPORTS_AGGREGATED
             /\ LIVE_REPORTS_AGGREGATED[c.name].final_status = "CRITICAL_ISSUE")
            => /\ \E k \in 1..Len(response.result) : response.result[k].name = c.name
               /\ \A k \in 1..Len(response.result) :
                     response.result[k].name = c.name =>
                        /\ response.result[k].status = "CRITICAL_ISSUE"
                        /\ StartsWith(response.result[k].reason,
                              "(" \o PhrasesOfResponse.critical_prefix \o " " \o
                              LIVE_REPORTS_AGGREGATED[c.name].reason)

\* the tags of center c answer every required need / fail some required need
AllRequiredPresent(c) ==
    \A need \in RequiredOfResponse : CAPABILITY_MAP[need].pos \in c.capabilities

SomeRequiredFailed(c) ==
    \E need \in RequiredOfResponse :
        /\ CAPABILITY_MAP[need].pos \notin c.capabilities
        /\ CAPABILITY_MAP[need].neg \in c.capabilities

\* C6 witness: in Malay, a center that matches every required need and has a
\* live CRITICAL_ISSUE is listed as CRITICAL_ISSUE
CriticalOverBestMatch ==
    /\ RankedResponse
    /\ response.language = "ms"
    /\ \E c \in LocatedCenters :
          /\ AllRequiredPresent(c)
          /\ c.name \in DOMAIN LIVE_REPORTS_AGGREGATED
          /\ LIVE_REPORTS_AGGREGATED[c.name].final_status = "CRITICAL_ISSUE"
          /\ \E k \in 1..Len(response.result) :
                /\ response.result[k].name = c.name
                /\ response.result[k].status = "CRITICAL_ISSUE"

\* the priority order the ranking is stated in
StatusPriority ==
    [s \in {"BEST_MATCH", "SUITABLE", "WARNING", "CRITICAL_ISSUE", "NOT_SUITABLE"} |->
        IF s = "BEST_MATCH" THEN 0
        ELSE IF s = "SUITABLE" THEN 1
        ELSE IF s = "WARNING" THEN 2
        ELSE IF s = "CRITICAL_ISSUE" THEN 3
        ELSE 4]

\* C7: the list of the needs-detected path is sorted: along it the status
\* priority never decreases and, between items of equal status, distance_km
\* never decreases.
RankedListSorted ==
    RankedResponse =>
        /\ \A k \in 1..Len(response.result) :
              response.result[k].status \in DOMAIN StatusPriority
        /\ \A k \in 1..(Len(response.result) - 1) :
              LET x == response.result[k]
                  y == response.result[k + 1]
              IN  /\ StatusPriority[x.status] <= StatusPriority[y.status]
                  /\ x.status = y.status => x.distance_km <= y.distance_km

\* C7 witness: a ranked list with two statuses whose order differs from the
\* order of the data file, and two items of one status at different distances
RankedListReordered ==
    /\ RankedResponse
    /\ \E j, k \in 1..Len(response.result) :
          /\ j < k
          /\ response.result[j].name = "B" /\ response.result[k].name = "A"
          /\ response.result[j].status # response.result[k].status
    /\ \E j \in 1..(Len(response.result) - 1) :
          /\ response.result[j].status = response.result[j + 1].status
          /\ response.result[j].distance_km < response.result[j + 1].distance_km

\* C8: a center with no live report is NOT_SUITABLE iff some required need is
\* failed (positive tag absent, negative tag present), BEST_MATCH iff every
\* required need has its positive tag, and SUITABLE otherwise.
CapabilityAggregateRule ==
    RankedResponse =>
        \A c \in LocatedCenters :
            c.name \notin DOMAIN LIVE_REPORTS_AGGREGATED =>
                \E k \in 1..Len(response.result) :
                    /\ response.result[k].name = c.name
                    /\ response.result[k].status = "NOT_SUITABLE"
                          <=> SomeRequiredFailed(c)
                    /\ response.result[k].status = "BEST_MATCH"
                          <=> AllRequiredPresent(c)
                    /\ response.result[k].status = "SUITABLE"
                          <=> (~SomeRequiredFailed(c) /\ ~AllRequiredPresent(c))

\* C8 witness: with two needs required, a center that matches one and lacks
\* information on the other is SUITABLE
PartlyMatchedIsSuitable ==
    /\ RankedResponse
    /\ Cardinality(RequiredOfResponse) = 2
    /\ \E c \in LocatedCenters, k \in 1..Len(response.result) :
          /\ c.name \notin DOMAIN LIVE_REPORTS_AGGREGATED
          /\ \E need \in RequiredOfResponse :
                CAPABILITY_MAP[need].pos \in c.capabilities
          /\ ~AllRequiredPresent(c) /\ ~SomeRequiredFailed(c)
          /\ response.result[k].name = c.name
          /\ response.result[k].status = "SUITABLE"

\* need is required and center c carries both its positive and its negative tag
BothTags(c, need) ==
    /\ need \in RequiredOfResponse
    /\ CAPABILITY_MAP[need].pos \in c.capabilities
    /\ CAPABILITY_MAP[need].neg \in c.capabilities

\* C9: a required need whose positive and negative tag are both present is
\* MATCHED: the reason carries its matched fragment and no failed fragment, and
\* the center is NOT_SUITABLE only if another required need is failed.
MatchedBeforeFailed ==
    RankedResponse =>
        \A c \in LocatedCenters, need \in DOMAIN CAPABILITY_MAP :
            BothTags(c, need) =>
                \E k \in 1..Len(response.result) :
                    /\ response.result[k].name = c.name
                    /\ Contains(response.result[k].reason,
                                PhrasesOfResponse.matched \o ": " \o need)
                    /\ ~Contains(response.result[k].reason,
                                 PhrasesOfResponse.failed_prefix \o " " \o need)
                    /\ response.result[k].status = "NOT_SUITABLE"
                          => SomeRequiredFailed(c)

\* C9 witness: a center with both tags of the one required need, listed as
\* BEST_MATCH
BothTagsBestMatch ==
    /\ RankedResponse
    /\ \E c \in LocatedCenters, need \in DOMAIN CAPABILITY_MAP :
          /\ BothTags(c, need)
          /\ RequiredOfResponse = {need}
          /\ \E k \in 1..Len(response.result) :
                /\ response.result[k].name = c.name
                /\ response.result[k].status = "BEST_MATCH"

\* the fallback result has the shape of one PPS_NEAREST_FALLBACK entry that
\* lists every center with coordinates once
FallbackListsLocatedCenters ==
    /\ Len(response.result) = 1
    /\ response.result[1].type = "PPS_NEAREST_FALLBACK"
    /\ Len(response.result[1].recommendations) = Cardinality(LocatedCenters)
    /\ \A c \in LocatedCenters :
          \E k \in 1..Len(response.result[1].recommendations) :
              response.result[1].recommendations[k].name = c.name

FallbackRank(status) ==
    IF status \in DOMAIN StatusPriority THEN StatusPriority[status] ELSE 99

AppendOnlyLog ==
    [][LET old == reportsFile.reports
           new == reportsFile'.reports
       IN  /\ Len(new) >= Len(old)
           /\ SubSeq(new, 1, Len(old)) = old
           /\ IF response'.op = "report_pps_status"
              THEN /\ response'.status = "ok"
                   /\ Len(new) = Len(old) + 1
                   /\ DOMAIN new[Len(new)] =
                         {"pps_name", "status", "reporter_id", "timestamp"}
                   /\ new[Len(new)] = response'.report
                   /\ new[Len(new)].timestamp = now
              ELSE new = old]_vars

\* C17: a missing or invalid report file counts as no reports: the rebuild at
\* import ends without an exception and leaves the aggregated map empty, and a
\* submission made while the file is unreadable is acknowledged and recorded.
CorruptStoreIsNoReports ==
    [][/\ (phase = "import" /\ response'.op = "import" /\ ~FileReadable(reportsFile))
            => /\ "error" \notin DOMAIN response'
               /\ phase' = "serving"
               /\ LIVE_REPORTS_AGGREGATED' = EmptyMap
       /\ (response'.op = "report_pps_status" /\ ~FileReadable(reportsFile))
            => /\ response'.status = "ok"
               /\ reportsFile'.state = "ok"
               /\ reportsFile'.reports = <<response'.report>>]_vars

\* C19: a run_actions call changes neither the shared center list nor the
\* aggregated live-status map.
RunActionsLeavesSharedState ==
    [][response'.op = "run_actions" =>
          /\ PPS_CENTERS' = PPS_CENTERS
          /\ LIVE_REPORTS_AGGREGATED' = LIVE_REPORTS_AGGREGATED]_vars

\* the items a run_actions result lists: the ranked items, or the
\* recommendations of the fallback entry
ListedItems ==
    IF RankedResponse THEN response.result ELSE response.result[1].recommendations

\* the center of the data file with the given name
CenterNamed(name) ==
    CHOOSE c \in {ppsDataFile[i] : i \in 1..Len(ppsDataFile)} : c.name = name

\* the rounded distance from the location of the response to center c
OwnDistance(c) == (1234 * (Abs(response.lat - c.lat) + Abs(response.lon - c.lon)) + 5) \div 10

\* how often record r occurs in the sequence log
Occurrences(log, r) == Cardinality({i \in 1..Len(log) : log[i] = r})

\* C11: a run_actions call that reads the aggregated map while a rebuild is in
\* progress sees the complete map from before the rebuild or the complete map
\* it produces, never an empty or partly filled one.
RebuildLooksAtomic ==
    response.op = "run_actions" /\ "rebuilds" \in DOMAIN response =>
        \A rebuild \in response.rebuilds :
            response.live \in {rebuild.old, rebuild.new}

\* C12: once every submission has been answered, the report file holds a
\* record for each acknowledged report, whatever the interleaving of the
\* requests was.
NoLostReports ==
    ReportsInFlight = {} =>
        \A i \in 1..Len(acked) :
            Occurrences(reportsFile.reports, acked[i]) >= Occurrences(acked, acked[i])

\* C18: every item of a run_actions result carries the distance from the
\* location of that call to the center, also when another call with another
\* location runs at the same time.
OwnDistancesInResult ==
    response.op = "run_actions" =>
        \A k \in 1..Len(ListedItems) :
            ListedItems[k].distance_km = OwnDistance(CenterNamed(ListedItems[k].name))

\* the live statuses an aggregated entry may carry
AggregatedStatuses == {"OK", "WARNING", "CRITICAL_ISSUE"}

\* the reports of the file for center c younger than six hours, in file order
FreshReportsOf(c) ==
    SelectSeq(reportsFile.reports,
              LAMBDA r : r.pps_name = c /\ now - r.timestamp < 6 * 60 * 60)

\* C14: every entry of the aggregated map has final_status OK, WARNING or
\* CRITICAL_ISSUE; a center with no critical report in the window whose most
\* recent report carries another status (NO_FOOD, free text) has OK.
AggregatedStatusInRange ==
    \A c \in DOMAIN LIVE_REPORTS_AGGREGATED :
        /\ LIVE_REPORTS_AGGREGATED[c].final_status \in AggregatedStatuses
        /\ (/\ FreshCritical(c) = {}
            /\ \E i \in 1..Len(FreshReportsOf(c)) :
                  /\ \A j \in 1..Len(FreshReportsOf(c)) :
                        FreshReportsOf(c)[j].timestamp <= FreshReportsOf(c)[i].timestamp
                  /\ Upper(FreshReportsOf(c)[i].status) \notin AggregatedStatuses \cup {"FULL"})
           => LIVE_REPORTS_AGGREGATED[c].final_status = "OK"

\* C15: extract_needs returns the four flags, and a flag is true exactly when
\* a keyword of its need occurs in the query, letter case ignored; "no pets"
\* sets pet_area.
NeedFlagsFollowKeywords ==
    response.op = "run_actions" /\ "needs" \in DOMAIN response =>
        /\ DOMAIN response.needs =
              {"ground_floor", "oku_toilets", "pet_area", "family_room"}
        /\ \A need \in DOMAIN response.needs :
              response.needs[need] <=>
                  \E kw \in NeedKeywords[need] :
                      Contains(Upper(response.query), Upper(kw))
        /\ Contains(Upper(response.query), "NO PETS") => response.needs["pet_area"]

\* C15 witness: a query with "no pets" and the capitalised Malay "tandas OKU"
\* flags pet_area, oku_toilets and ground_floor, and not family_room
NoPetsAndCapitalsFlagged ==
    /\ response.op = "run_actions"
    /\ "needs" \in DOMAIN response
    /\ Contains(response.query, "no pets")
    /\ Contains(response.query, "tandas OKU")
    /\ response.needs["pet_area"]
    /\ response.needs["oku_toilets"]
    /\ response.needs["ground_floor"]
    /\ ~response.needs["family_room"]

\* record r has both pps_name and timestamp
WellFormed(r) == "pps_name" \in DOMAIN r /\ "timestamp" \in DOMAIN r

\* C16: records without pps_name or without timestamp are left out of the
\* aggregation: the rebuild gives the map it gives for the log without them,
\* and every entry rests on a well-formed record inside the window.
MalformedReportsIsolated ==
    response.op = "import" =>
        /\ "error" \notin DOMAIN response
        /\ LIVE_REPORTS_AGGREGATED =
              RefreshLiveReports(
                  [state |-> "ok", reports |-> SelectSeq(reportsFile.reports, WellFormed)],
                  now)
        /\ \A c \in DOMAIN LIVE_REPORTS_AGGREGATED :
              \E i \in 1..Len(reportsFile.reports) :
                  /\ WellFormed(reportsFile.reports[i])
                  /\ reportsFile.reports[i].pps_name = c
                  /\ now - reportsFile.reports[i].timestamp < REPORT_TIMEOUT_SEC

\* C16 witness: center A has one well-formed fresh FULL report and one FULL
\* record without timestamp, and is rebuilt to WARNING
MalformedCriticalNotCounted ==
    /\ response.op = "import"
    /\ \E i, j \in 1..Len(reportsFile.reports) :
          /\ WellFormed(reportsFile.reports[i])
          /\ reportsFile.reports[i] = Report("A", "FULL", "r1", now)
          /\ reportsFile.reports[j] = [pps_name |-> "A", status |-> "FULL",
                                       reporter_id |-> "r1"]
    /\ \E k \in 1..Len(reportsFile.reports) : "pps_name" \notin DOMAIN reportsFile.reports[k]
    /\ "A" \in DOMAIN LIVE_REPORTS_AGGREGATED
    /\ LIVE_REPORTS_AGGREGATED["A"].final_status = "WARNING"

\* the language code of the response has no phrase table
UnknownLanguage == Lower(response.language) \notin {"en", "ms"}

\* C20: with a language code other than en and ms (letter case ignored)
\* run_actions returns what it returns for en on the same query, location,
\* centers and live map, in English text; MS, En and the like select their
\* table.
UnknownLanguageIsEnglish ==
    response.op = "run_actions" =>
        /\ UnknownLanguage =>
              /\ response.result =
                    RunActionsResult(ppsDataFile, LIVE_REPORTS_AGGREGATED,
                                     response.query, response.lat, response.lon, "en")
              /\ FallbackResponse =>
                    response.result[1].message =
                        "No specific needs detected for query: " \o response.query
                            \o ". Showing closest PPS."
              /\ RankedResponse =>
                    \A k \in 1..Len(response.result) :
                        ~Contains(response.result[k].reason, "Tiada")
                        /\ ~Contains(response.result[k].reason, "Dipadankan")
                        /\ ~Contains(response.result[k].reason, "LAPORAN")
        /\ ~UnknownLanguage =>
              response.result =
                  RunActionsResult(ppsDataFile, LIVE_REPORTS_AGGREGATED,
                                   response.query, response.lat, response.lon,
                                   Lower(response.language))

\* C20 witness: a ranked list asked for in "fr", with an English matched
\* fragment and an English live-report prefix
FrenchAnsweredInEnglish ==
    /\ RankedResponse
    /\ response.language = "fr"
    /\ \E k \in 1..Len(response.result) :
          Contains(response.result[k].reason, "Matched: pet_area")
    /\ \E k \in 1..Len(response.result) :
          Contains(response.result[k].reason, "LIVE REPORT:")

\* s ends with suffix
EndsWith(s, suffix) ==
    /\ Len(suffix) <= Len(s)
    /\ SubSeq(s, Len(s) - Len(suffix) + 1, Len(s)) = suffix

\* the item of the ranked response for the center called name
ItemOf(result, name) ==
    result[CHOOSE k \in 1..Len(result) : result[k].name = name]

\* the reason of an item carries a live-status prefix
HasLivePrefix(item) ==
    \/ Contains(item.reason, PhrasesOfResponse.critical_prefix)
    \/ Contains(item.reason, PhrasesOfResponse.warning_prefix)

\* C21: in the needs-detected path a live WARNING makes a center WARNING, with
\* the warning prefix and the live reason at the head of its reason, only when
\* its capability status is BEST_MATCH or SUITABLE; a center that fails a
\* required need stays NOT_SUITABLE and gets no live prefix; a center without
\* a live WARNING never gets the warning prefix.
WarningOverrideGuarded ==
    RankedResponse =>
        \A c \in LocatedCenters :
            LET item == ItemOf(response.result, c.name)
                warned == /\ c.name \in DOMAIN LIVE_REPORTS_AGGREGATED
                          /\ LIVE_REPORTS_AGGREGATED[c.name].final_status = "WARNING"
            IN  /\ (warned /\ SomeRequiredFailed(c)) =>
                      /\ item.status = "NOT_SUITABLE"
                      /\ ~HasLivePrefix(item)
                /\ (warned /\ ~SomeRequiredFailed(c)) =>
                      /\ item.status = "WARNING"
                      /\ StartsWith(item.reason,
                            "(" \o PhrasesOfResponse.warning_prefix \o " " \o
                            LIVE_REPORTS_AGGREGATED[c.name].reason)
                /\ ~warned =>
                      /\ item.status # "WARNING"
                      /\ ~Contains(item.reason, PhrasesOfResponse.warning_prefix)

\* C21 witness: one list with a center that fails a required need and keeps
\* NOT_SUITABLE under a live WARNING
UnsuitableKeptUnderWarning ==
    /\ RankedResponse
    /\ \E c \in LocatedCenters :
          /\ SomeRequiredFailed(c)
          /\ c.name \in DOMAIN LIVE_REPORTS_AGGREGATED
          /\ LIVE_REPORTS_AGGREGATED[c.name].final_status = "WARNING"
          /\ ItemOf(response.result, c.name).status = "NOT_SUITABLE"

\* C22: the reason of an item of the needs-detected result ends with the
\* localized no-recent-report notice exactly when no live-status prefix was
\* put into it; a NOT_SUITABLE center with no live report carries the notice.
NoticeIffNoLivePrefix ==
    RankedResponse =>
        \A k \in 1..Len(response.result) :
            EndsWith(response.result[k].reason, PhrasesOfResponse.no_report \o ")")
                <=> ~HasLivePrefix(response.result[k])

\* C26: in the fallback list a center with status OK never comes after a
\* center with status WARNING or CRITICAL_ISSUE.
FallbackOkBeforeFlagged ==
    FallbackResponse =>
        \A j, k \in 1..Len(response.result[1].recommendations) :
            (/\ j < k
             /\ response.result[1].recommendations[k].status = "OK")
            => response.result[1].recommendations[j].status
                  \notin {"WARNING", "CRITICAL_ISSUE"}

\* log without the records at the indices in drop
RECURSIVE WithoutIndices(_, _, _)
WithoutIndices(log, drop, i) ==
    IF i > Len(log) THEN <<>>
    ELSE (IF i \in drop THEN <<>> ELSE <<log[i]>>) \o WithoutIndices(log, drop, i + 1)

\* the ranked list the call of the response gives when the report file holds log
RankedListFor(log) ==
    RankedActions(AllPpsWithDistance(ppsDataFile, response.lat, response.lon),
                  response.needs,
                  RefreshLiveReports([state |-> "ok", reports |-> log], now),
                  LangMap(response.language))

\* the ways to take fresh critical reports for center c out of the log
SomeFreshCritical(c) == (SUBSET FreshCritical(c)) \ {{}}

\* the status priority of center c in the list for the log that lacks the
\* reports at the indices in drop
PriorityWithout(c, drop) ==
    StatusPriority[ItemOf(RankedListFor(WithoutIndices(reportsFile.reports, drop, 1)),
                          c.name).status]

\* C27 as stated: fresh critical reports for a center never give it a strictly
\* better status priority in the ranked list than it has without them.
CriticalNeverImprovesRank ==
    RankedResponse =>
        \A c \in LocatedCenters : \A drop \in SomeFreshCritical(c.name) :
            StatusPriority[ItemOf(response.result, c.name).status]
                >= PriorityWithout(c, drop)

\* center c has the negative tag, and not the positive one, of a need the
\* call of the response detected (line 167)
FailsNeedOfCall(c) ==
    \E need \in DOMAIN CAPABILITY_MAP :
        /\ response.needs[need]
        /\ CAPABILITY_MAP[need].pos \notin c.capabilities
        /\ CAPABILITY_MAP[need].neg \in c.capabilities

\* C27 amended: the same for every center that fails no required need; a
\* center that fails one is listed NOT_SUITABLE with fewer than 2 fresh
\* critical reports and CRITICAL_ISSUE, one priority better, from 2 on.
CriticalNeverImprovesSuitableRank ==
    RankedResponse =>
        \A c \in LocatedCenters :
            /\ ~FailsNeedOfCall(c) =>
                  \A drop \in SomeFreshCritical(c.name) :
                      StatusPriority[ItemOf(response.result, c.name).status]
                          >= PriorityWithout(c, drop)
            /\ FailsNeedOfCall(c) =>
                  ItemOf(response.result, c.name).status =
                      IF Cardinality(FreshCritical(c.name)) >= 2
                      THEN "CRITICAL_ISSUE" ELSE "NOT_SUITABLE"

\* C27 witness: a center that fails a required need, listed as CRITICAL_ISSUE
\* on two fresh critical reports, next to a center that matches and is
\* worse off for its own critical report
CriticalLiftsUnsuitable ==
    /\ RankedResponse
    /\ \E c \in LocatedCenters :
          /\ FailsNeedOfCall(c)
          /\ Cardinality(FreshCritical(c.name)) = 2
          /\ ItemOf(response.result, c.name).status = "CRITICAL_ISSUE"
          /\ PriorityWithout(c, FreshCritical(c.name)) = 4

\* C25: after a rebuild a center has an entry in the aggregated map exactly
\* when it has a report younger than six hours, and the entry's
\* latest_timestamp is the greatest timestamp among those reports; a center
\* whose reports have all expired has no entry.
EntryIffFreshReport ==
    response.op = "import" =>
        \A c \in ReportedCenters \cup DOMAIN LIVE_REPORTS_AGGREGATED :
            /\ c \in DOMAIN LIVE_REPORTS_AGGREGATED <=> Len(FreshReportsOf(c)) > 0
            /\ c \in DOMAIN LIVE_REPORTS_AGGREGATED =>
                  /\ \E i \in 1..Len(FreshReportsOf(c)) :
                        FreshReportsOf(c)[i].timestamp =
                            LIVE_REPORTS_AGGREGATED[c].latest_timestamp
                  /\ \A i \in 1..Len(FreshReportsOf(c)) :
                        FreshReportsOf(c)[i].timestamp <=
                            LIVE_REPORTS_AGGREGATED[c].latest_timestamp

\* C25 witness: a center whose only reports are six and seven hours old has no
\* entry, while another with fresh reports of two ages has the later timestamp
ExpiredCenterAbsent ==
    /\ response.op = "import"
    /\ \E c, d \in ReportedCenters :
          /\ \E i \in 1..Len(reportsFile.reports) : reportsFile.reports[i].pps_name = c
          /\ Len(FreshReportsOf(c)) = 0
          /\ c \notin DOMAIN LIVE_REPORTS_AGGREGATED
          /\ Len(FreshReportsOf(d)) = 2
          /\ FreshReportsOf(d)[1].timestamp < FreshReportsOf(d)[2].timestamp
          /\ LIVE_REPORTS_AGGREGATED[d].latest_timestamp = now

\* how many items of the result carry the given name
ItemsNamed(name) == Cardinality({k \in 1..Len(ListedItems) : ListedItems[k].name = name})

\* C23: in both paths the result has exactly one item for every center with
\* lat and lon and none for a center that lacks either; NOT_SUITABLE and
\* CRITICAL_ISSUE centers are listed like the others.
CenterCoverage ==
    response.op = "run_actions" =>
        /\ \A i \in 1..Len(ppsDataFile) :
              ItemsNamed(ppsDataFile[i].name) =
                  IF "lat" \in DOMAIN ppsDataFile[i] /\ "lon" \in DOMAIN ppsDataFile[i]
                  THEN 1 ELSE 0
        /\ \A k \in 1..Len(ListedItems) :
              \E i \in 1..Len(ppsDataFile) : ppsDataFile[i].name = ListedItems[k].name

\* C23 witness: a ranked list that lacks the center without lon and holds a
\* NOT_SUITABLE or CRITICAL_ISSUE center next to another one
CoverageKeepsUnsuitable ==
    /\ RankedResponse
    /\ \E i \in 1..Len(ppsDataFile) :
          /\ "lat" \in DOMAIN ppsDataFile[i]
          /\ "lon" \notin DOMAIN ppsDataFile[i]
          /\ ItemsNamed(ppsDataFile[i].name) = 0
    /\ Len(response.result) = 2
    /\ response.result[2].name = "A"
    /\ response.result[2].status \in {"NOT_SUITABLE", "CRITICAL_ISSUE"}

\* C24: the map a rebuild leaves is a function of the log it read and of the
\* time alone, whatever the map held before: rebuilding again on the same log
\* and time gives the same map, and entries of an earlier map do not survive.
RebuildFromLogAndTime ==
    response.op = "refresh" =>
        LIVE_REPORTS_AGGREGATED =
            RefreshLiveReports(response.file, response.current_time)

\* C24 witness: a rebuild that returned with a map lacking an entry of the map
\* it replaced, the reports behind that entry having expired
RebuildDropsStaleEntry ==
    /\ response.op = "refresh"
    /\ response.file.state = "ok"
    /\ \E c \in DOMAIN response.old :
          /\ c \notin DOMAIN LIVE_REPORTS_AGGREGATED
          /\ \E i \in 1..Len(response.file.reports) :
                response.file.reports[i].pps_name = c

\* C28: a rebuild that runs while a submission is rewriting the report file
\* leaves the consensus of the log before that submission or of the log
\* after it, never a map that comes from an emptied or half-written file.
RebuildSeesWholeLog ==
    response.op = "refresh" =>
        \A rewrite \in response.rewrites :
            LIVE_REPORTS_AGGREGATED \in
                {RefreshLiveReports([state |-> "ok", reports |-> rewrite.before],
                                    response.current_time),
                 RefreshLiveReports([state |-> "ok", reports |-> rewrite.after],
                                    response.current_time)}

====
